---- MODULE Spec2Model ----
(***************************************************************************)
(* Model of the solana-chat on-chain program: the binary codec of         *)
(* md::data (Message, AccountMetadata, ChatInstruction) and the            *)
(* instruction processor that applies instructions to an account buffer.  *)
(*                                                                         *)
(* Byte slices are sequences of 0..255.  A Rust offset o is the sequence  *)
(* index o+1; the slice data[a..b] is Slice(data, a, b).  Every fallible  *)
(* operation yields a record whose status is "Ok", "Err" (the             *)
(* ChatDeserializationError value) or "Panic" (an out-of-range slice, a   *)
(* copy_from_slice length mismatch, a checked arithmetic overflow).  An   *)
(* operation that writes through a &mut [u8] also yields the bytes of     *)
(* that slice as they are at the moment it returns or panics.             *)
(*                                                                         *)
(* A u32 is the record [hi, lo] of its two 16-bit halves, so that the     *)
(* whole range 0..2^32-1 and its wrap-around are represented.  A usize    *)
(* (64 bits in the build) is the record [hi, lo] of the value             *)
(* hi * 2^16 + lo with lo < 2^16, so that `x as usize` and the sums of    *)
(* sizes keep their exact values; a usize that has passed a bounds test   *)
(* against a slice is turned into a sequence index by index.              *)
(***************************************************************************)
EXTENDS Integers, Sequences, FiniteSets, TLC

\* ------------------------------------------------------------------------
\* Program constants
\* ------------------------------------------------------------------------
U32_SIZE == 4
U8_SIZE == 1
PUBKEY_BYTES == 32
ACCOUNT_METADATA_BASE_SIZE == 13
ACCOUNT_SIZE == 5120
U16_MODULUS == 256 * 256

\* ------------------------------------------------------------------------
\* u32 and usize
\* ------------------------------------------------------------------------
\* the u32 with value n, for 0 <= n < 2^31
U32Of(n) == [hi |-> (n \div U16_MODULUS) % U16_MODULUS, lo |-> n % U16_MODULUS]

\* u32::MAX
U32_MAX == [hi |-> U16_MODULUS - 1, lo |-> U16_MODULUS - 1]

\* x + k in wrapping u32 arithmetic, for an integer 0 <= k < 2^31
wrapping_add(x, k) ==
    LET s == x.lo + (k % U16_MODULUS)
    IN  [hi |-> (x.hi + (k \div U16_MODULUS) + (s \div U16_MODULUS)) % U16_MODULUS,
         lo |-> s % U16_MODULUS]

\* x + k exceeds u32::MAX, for an integer 0 <= k < 2^31
add_overflows(x, k) ==
    LET s == x.lo + (k % U16_MODULUS)
    IN  x.hi + (k \div U16_MODULUS) + (s \div U16_MODULUS) >= U16_MODULUS

\* the usize with value n, for an integer 0 <= n < 2^31
Usize(n) == [hi |-> n \div U16_MODULUS, lo |-> n % U16_MODULUS]

\* x as usize for a u32 x: the same value
as_usize(x) == [hi |-> x.hi, lo |-> x.lo]

\* a as u32 for a usize a: the low 32 bits
as_u32(a) == [hi |-> a.hi % U16_MODULUS, lo |-> a.lo]

\* a + b on usize (the sums of the program stay far below 2^64)
usize_add(a, b) ==
    LET s == a.lo + b.lo
    IN  [hi |-> a.hi + b.hi + (s \div U16_MODULUS), lo |-> s % U16_MODULUS]

\* a < b on usize
usize_lt(a, b) == a.hi < b.hi \/ (a.hi = b.hi /\ a.lo < b.lo)

\* a > data.len(): the bound a slice index or range end fails
past_len(a, data) == usize_lt(Usize(Len(data)), a)

\* the integer of a usize that is at most the length of a slice
index(a) == (a.hi * U16_MODULUS) + a.lo

\* ------------------------------------------------------------------------
\* Byte helpers
\* ------------------------------------------------------------------------
\* data[a..b] for 0-based a <= b <= data.len()
Slice(data, a, b) == SubSeq(data, a + 1, b)

\* data with data[a..a+src.len()] replaced by src (copy_from_slice on a
\* sub-slice of exactly src.len() bytes)
CopyInto(data, a, src) ==
    SubSeq(data, 1, a) \o src \o SubSeq(data, a + Len(src) + 1, Len(data))

\* the four bytes most significant first
to_be_bytes(x) ==
    << x.hi \div 256, x.hi % 256, x.lo \div 256, x.lo % 256 >>

\* u32::to_le_bytes
to_le_bytes(x) ==
    << x.lo % 256, x.lo \div 256, x.hi % 256, x.hi \div 256 >>

\* u32::from_le_bytes(*array_ref!(data, off, 4)), for off + 4 <= data.len()
from_le_bytes(data, off) ==
    [hi |-> data[off + 3] + 256 * data[off + 4],
     lo |-> data[off + 1] + 256 * data[off + 2]]

\* the UTF-8 encoding of U+FFFD REPLACEMENT CHARACTER
REPLACEMENT == << 239, 191, 189 >>

\* core::str::lossy safe_get: the byte at 0-based i, or 0 past the end
safe_get(s, i) == IF i < Len(s) THEN s[i + 1] ELSE 0

IsCont(b) == b >= 128 /\ b <= 191

\* core::str::utf8_char_width
utf8_char_width(b) ==
    IF b < 128 THEN 1
    ELSE IF b >= 194 /\ b <= 223 THEN 2
    ELSE IF b >= 224 /\ b <= 239 THEN 3
    ELSE IF b >= 240 /\ b <= 244 THEN 4
    ELSE 0

\* the second byte ranges of three- and four-byte sequences
SecondOk(b, c) ==
    \/ b = 224 /\ c >= 160 /\ c <= 191
    \/ b >= 225 /\ b <= 236 /\ IsCont(c)
    \/ b = 237 /\ c >= 128 /\ c <= 159
    \/ b >= 238 /\ b <= 239 /\ IsCont(c)
    \/ b = 240 /\ c >= 144 /\ c <= 191
    \/ b >= 241 /\ b <= 243 /\ IsCont(c)
    \/ b = 244 /\ c >= 128 /\ c <= 143

\* One step of Utf8Chunks at 0-based i: [valid |-> is the sequence starting
\* at i well formed, len |-> bytes consumed (the invalid prefix if not)]
Utf8Step(s, i) ==
    LET b == s[i + 1]
        w == utf8_char_width(b)
    IN  IF w = 1 THEN [valid |-> TRUE, len |-> 1]
        ELSE IF w = 2 THEN
            IF IsCont(safe_get(s, i + 1)) THEN [valid |-> TRUE, len |-> 2]
            ELSE [valid |-> FALSE, len |-> 1]
        ELSE IF w = 3 THEN
            IF ~SecondOk(b, safe_get(s, i + 1)) THEN [valid |-> FALSE, len |-> 1]
            ELSE IF ~IsCont(safe_get(s, i + 2)) THEN [valid |-> FALSE, len |-> 2]
            ELSE [valid |-> TRUE, len |-> 3]
        ELSE IF w = 4 THEN
            IF ~SecondOk(b, safe_get(s, i + 1)) THEN [valid |-> FALSE, len |-> 1]
            ELSE IF ~IsCont(safe_get(s, i + 2)) THEN [valid |-> FALSE, len |-> 2]
            ELSE IF ~IsCont(safe_get(s, i + 3)) THEN [valid |-> FALSE, len |-> 3]
            ELSE [valid |-> TRUE, len |-> 4]
        ELSE [valid |-> FALSE, len |-> 1]

RECURSIVE Utf8LossyFrom(_, _)
Utf8LossyFrom(s, i) ==
    IF i >= Len(s) THEN << >>
    ELSE LET st == Utf8Step(s, i)
         IN  (IF st.valid THEN Slice(s, i, i + st.len) ELSE REPLACEMENT)
                 \o Utf8LossyFrom(s, i + st.len)

\* String::from_utf8_lossy(bytes).into_owned(), as the bytes of the String
from_utf8_lossy(s) == Utf8LossyFrom(s, 0)

\* ------------------------------------------------------------------------
\* Message (data.rs)
\* ------------------------------------------------------------------------
\* Message::default()
DefaultMessage ==
    [id |-> U32Of(0), from |-> [i \in 1..PUBKEY_BYTES |-> 0],
     msg_size |-> U32Of(0), msg |-> << >>]

\* Message::new: msg_size is the byte length of the text
NewMessage(id, from, msg) ==
    [id |-> id, from |-> from, msg_size |-> U32Of(Len(msg)), msg |-> msg]

\* <Message as ChatData>::size
MessageSize(m) ==
    usize_add(usize_add(Usize(U32_SIZE + PUBKEY_BYTES), as_usize(m.msg_size)),
              Usize(U32_SIZE))

\* <Message as ChatData>::deserialize on a default message.  array_ref! and
\* the text slice panic when they reach past data; there is no Err path.
MessageDeserialize(data) ==
    LET msg_start == (U32_SIZE * 2) + PUBKEY_BYTES
    IN  IF Len(data) < msg_start THEN [status |-> "Panic", value |-> DefaultMessage]
        ELSE LET id == from_le_bytes(data, 0)
                 from == Slice(data, U32_SIZE, U32_SIZE + PUBKEY_BYTES)
                 msg_size == from_le_bytes(data, U32_SIZE + PUBKEY_BYTES)
                 msg_end == usize_add(Usize(msg_start), as_usize(msg_size))
             IN  IF past_len(msg_end, data)
                 THEN [status |-> "Panic", value |-> DefaultMessage]
                 ELSE [status |-> "Ok",
                       value |-> [id |-> id, from |-> from, msg_size |-> msg_size,
                                  msg |-> from_utf8_lossy(
                                              Slice(data, msg_start, index(msg_end)))]]

\* Message::serialize with the size test rejecting only a destination that
\* is too short
MessageSerialize_accepting_longer(m, data) ==
    IF past_len(MessageSize(m), data) THEN [status |-> "Err", data |-> data]
    ELSE LET d1 == CopyInto(data, 0, to_le_bytes(m.id))
             d2 == CopyInto(d1, U32_SIZE, m.from)
             d3 == CopyInto(d2, U32_SIZE + PUBKEY_BYTES, to_le_bytes(m.msg_size))
             start == (U32_SIZE * 2) + PUBKEY_BYTES
         IN  IF Usize(Len(m.msg)) # as_usize(m.msg_size)
             THEN [status |-> "Panic", data |-> d3]
             ELSE [status |-> "Ok", data |-> CopyInto(d3, start, m.msg)]

\* <Message as ChatData>::serialize into the slice data.  The id, sender and
\* length are written before the text; copy_from_slice of the text panics
\* when the text's byte length is not msg_size.
MessageSerialize(m, data) ==
    IF MessageSize(m) # Usize(Len(data)) THEN [status |-> "Err", data |-> data]
    ELSE LET d1 == CopyInto(data, 0, to_le_bytes(m.id))
             d2 == CopyInto(d1, U32_SIZE, m.from)
             d3 == CopyInto(d2, U32_SIZE + PUBKEY_BYTES, to_le_bytes(m.msg_size))
             start == (U32_SIZE * 2) + PUBKEY_BYTES
         IN  IF Usize(Len(m.msg)) # as_usize(m.msg_size)
             THEN [status |-> "Panic", data |-> d3]
             ELSE [status |-> "Ok", data |-> CopyInto(d3, start, m.msg)]

\* the loop of deserialize_messages from cursor start (start < data.len());
\* consumed is the cursor when the loop ends
RECURSIVE DeserializeMessagesFrom(_, _, _)
DeserializeMessagesFrom(data, start, messages) ==
    LET r == MessageDeserialize(Slice(data, start, Len(data)))
    IN  IF r.status # "Ok" THEN [status |-> r.status, value |-> << >>]
        ELSE LET next == start + index(MessageSize(r.value))
                 acc == Append(messages, r.value)
             IN  IF next >= Len(data)
                 THEN [status |-> "Ok", value |-> acc, consumed |-> next]
                 ELSE DeserializeMessagesFrom(data, next, acc)

\* deserialize_messages without the is_empty test
deserialize_messages_without_empty_test(data) == DeserializeMessagesFrom(data, 0, << >>)

\* deserialize_messages
deserialize_messages(data) ==
    IF Len(data) = 0 THEN [status |-> "Ok", value |-> << >>, consumed |-> 0]
    ELSE DeserializeMessagesFrom(data, 0, << >>)

\* the loop of serialize_messages from message k at cursor current_index
RECURSIVE SerializeMessagesFrom(_, _, _, _)
SerializeMessagesFrom(messages, data, k, current_index) ==
    IF k > Len(messages) THEN [status |-> "Ok", data |-> data]
    ELSE LET m == messages[k]
             end == usize_add(Usize(current_index), MessageSize(m))
         IN  IF past_len(end, data) THEN [status |-> "Panic", data |-> data]
             ELSE LET r == MessageSerialize(m, Slice(data, current_index, index(end)))
                      d == CopyInto(data, current_index, r.data)
                  IN  IF r.status # "Ok" THEN [status |-> r.status, data |-> d]
                      ELSE SerializeMessagesFrom(messages, d, k + 1, index(end))

\* serialize_messages
serialize_messages(messages, data) == SerializeMessagesFrom(messages, data, 1, 0)

RECURSIVE SumSizes(_, _)
\* messages.iter().map(|c| c.size()).sum() over messages[k..]
SumSizes(messages, k) ==
    IF k > Len(messages) THEN Usize(0)
    ELSE usize_add(MessageSize(messages[k]), SumSizes(messages, k + 1))

\* ------------------------------------------------------------------------
\* AccountMetadata (data.rs)
\* ------------------------------------------------------------------------
\* AccountMetadata::default()
DefaultMetadata ==
    [initialized |-> 0, next_free_index |-> U32Of(0), last_message_id |-> U32Of(0),
     account_name_len |-> U32Of(0), account_name |-> << >>]

\* <AccountMetadata as ChatData>::size
MetadataSize(md) ==
    usize_add(Usize(ACCOUNT_METADATA_BASE_SIZE), as_usize(md.account_name_len))

\* AccountMetadata::new without the last assignment: the cursor stays 0
NewMetadata_cursor_zero(name) ==
    [initialized |-> 1, next_free_index |-> U32Of(0), last_message_id |-> U32Of(0),
     account_name_len |-> U32Of(Len(name)), account_name |-> name]

\* AccountMetadata::new
NewMetadata(name) ==
    LET md == [initialized |-> 1, next_free_index |-> U32Of(0),
               last_message_id |-> U32Of(0),
               account_name_len |-> U32Of(Len(name)), account_name |-> name]
    IN  [md EXCEPT !.next_free_index = as_u32(MetadataSize(md))]

\* <AccountMetadata as ChatData>::deserialize on a default value; panics
\* when the fixed fields or the name reach past data, never returns Err
MetadataDeserialize(data) ==
    LET name_start == (U32_SIZE * 3) + U8_SIZE
    IN  IF Len(data) < name_start THEN [status |-> "Panic", value |-> DefaultMetadata]
        ELSE LET initialized == data[1]
                 next_free_index == from_le_bytes(data, U8_SIZE)
                 last_message_id == from_le_bytes(data, U32_SIZE + U8_SIZE)
                 account_name_len == from_le_bytes(data, (U32_SIZE * 2) + U8_SIZE)
                 name_end == usize_add(Usize(name_start), as_usize(account_name_len))
             IN  IF past_len(name_end, data)
                 THEN [status |-> "Panic", value |-> DefaultMetadata]
                 ELSE [status |-> "Ok",
                       value |-> [initialized |-> initialized,
                                  next_free_index |-> next_free_index,
                                  last_message_id |-> last_message_id,
                                  account_name_len |-> account_name_len,
                                  account_name |-> from_utf8_lossy(
                                      Slice(data, name_start, index(name_end)))]]

\* <AccountMetadata as ChatData>::serialize into the slice data; the four
\* fixed fields are written before the name is copied
MetadataSerialize(md, data) ==
    IF MetadataSize(md) # Usize(Len(data)) THEN [status |-> "Err", data |-> data]
    ELSE LET d1 == CopyInto(data, 0, << md.initialized >>)
             d2 == CopyInto(d1, U8_SIZE, to_le_bytes(md.next_free_index))
             d3 == CopyInto(d2, U8_SIZE + U32_SIZE, to_le_bytes(md.last_message_id))
             d4 == CopyInto(d3, U8_SIZE + (2 * U32_SIZE), to_le_bytes(md.account_name_len))
             start == U8_SIZE + (3 * U32_SIZE)
         IN  IF Usize(Len(md.account_name)) # as_usize(md.account_name_len)
             THEN [status |-> "Panic", data |-> d4]
             ELSE [status |-> "Ok", data |-> CopyInto(d4, start, md.account_name)]

\* ------------------------------------------------------------------------
\* ChatInstruction (data.rs)
\* ------------------------------------------------------------------------
SendMessagesInstr(messages) == [tag |-> 0, messages |-> messages]
DeleteMessagesInstr(id) == [tag |-> 1, id |-> id]
OpenAccountInstr(md) == [tag |-> 2, account_metadata |-> md]

\* ChatInstruction::size
InstructionSize(ci) ==
    usize_add(Usize(U8_SIZE),
              CASE ci.tag = 0 -> SumSizes(ci.messages, 1)
                [] ci.tag = 1 -> Usize(U32_SIZE)
                [] ci.tag = 2 -> MetadataSize(ci.account_metadata))

\* ChatInstruction::serialize
InstructionSerialize(ci, data) ==
    IF InstructionSize(ci) # Usize(Len(data)) THEN [status |-> "Err", data |-> data]
    ELSE LET d0 == CopyInto(data, 0, << ci.tag >>)
             rest == Slice(d0, U8_SIZE, Len(d0))
         IN  CASE ci.tag = 0 ->
                    LET r == serialize_messages(ci.messages, rest)
                    IN  [status |-> r.status, data |-> CopyInto(d0, U8_SIZE, r.data)]
               [] ci.tag = 1 ->
                    [status |-> "Ok", data |-> CopyInto(d0, U8_SIZE, to_le_bytes(ci.id))]
               [] ci.tag = 2 ->
                    LET r == MetadataSerialize(ci.account_metadata, rest)
                    IN  [status |-> r.status, data |-> CopyInto(d0, U8_SIZE, r.data)]

\* ChatInstruction::deserialize with an unknown tag read as an empty
\* SendMessages
InstructionDeserialize_lenient(data) ==
    IF Len(data) = 0 THEN [status |-> "Err"]
    ELSE LET tag == data[1]
             rest == Slice(data, 1, Len(data))
         IN  CASE tag = 0 ->
                    LET r == deserialize_messages(rest)
                    IN  IF r.status = "Ok"
                        THEN [status |-> "Ok", value |-> SendMessagesInstr(r.value)]
                        ELSE [status |-> r.status]
               [] tag = 1 ->
                    IF Len(rest) < U32_SIZE THEN [status |-> "Panic"]
                    ELSE [status |-> "Ok",
                          value |-> DeleteMessagesInstr(from_le_bytes(rest, 0))]
               [] tag = 2 ->
                    LET r == MetadataDeserialize(rest)
                    IN  IF r.status = "Ok"
                        THEN [status |-> "Ok", value |-> OpenAccountInstr(r.value)]
                        ELSE [status |-> r.status]
               [] OTHER -> [status |-> "Ok", value |-> SendMessagesInstr(<< >>)]

\* ChatInstruction::deserialize
InstructionDeserialize(data) ==
    IF Len(data) = 0 THEN [status |-> "Err"]
    ELSE LET tag == data[1]
             rest == Slice(data, 1, Len(data))
         IN  CASE tag = 0 ->
                    LET r == deserialize_messages(rest)
                    IN  IF r.status = "Ok"
                        THEN [status |-> "Ok", value |-> SendMessagesInstr(r.value)]
                        ELSE [status |-> r.status]
               [] tag = 1 ->
                    IF Len(rest) < U32_SIZE THEN [status |-> "Panic"]
                    ELSE [status |-> "Ok",
                          value |-> DeleteMessagesInstr(from_le_bytes(rest, 0))]
               [] tag = 2 ->
                    LET r == MetadataDeserialize(rest)
                    IN  IF r.status = "Ok"
                        THEN [status |-> "Ok", value |-> OpenAccountInstr(r.value)]
                        ELSE [status |-> r.status]
               [] OTHER -> [status |-> "Err"]

\* deserialize_account_data once the header is decoded: the log is read from
\* data[account_metadata_size..next_free_index] when the cursor lies past
\* the header, and is None otherwise
AccountDataLog(data, account_metadata_size, account_metadata, next_free_index) ==
    IF usize_lt(account_metadata_size, next_free_index)
    THEN IF past_len(next_free_index, data)
         THEN [status |-> "Panic"]
         ELSE LET r == deserialize_messages(
                           Slice(data, index(account_metadata_size),
                                 index(next_free_index)))
              IN  IF r.status # "Ok" THEN [status |-> r.status]
                  ELSE [status |-> "Ok", metadata |-> account_metadata,
                        some |-> TRUE, messages |-> r.value]
    ELSE [status |-> "Ok", metadata |-> account_metadata,
          some |-> FALSE, messages |-> << >>]

\* deserialize_account_data with the header size calculate_size_from_buffer
\* computed
AccountDataHeader(data, account_metadata_size) ==
    IF past_len(account_metadata_size, data) THEN [status |-> "Panic"]
    ELSE LET md == MetadataDeserialize(Slice(data, 0, index(account_metadata_size))).value
         IN  AccountDataLog(data, account_metadata_size, md, as_usize(md.next_free_index))

\* AccountMetadata::calculate_size_from_buffer, for data of at least 13 bytes
calculate_size_from_buffer(data) ==
    usize_add(Usize(ACCOUNT_METADATA_BASE_SIZE),
              as_usize(from_le_bytes(data, U8_SIZE + (2 * U32_SIZE))))

\* deserialize_account_data: [metadata, some, messages] is the pair
\* (AccountMetadata, Option<Vec<Message>>)
deserialize_account_data(data) ==
    IF Len(data) < U8_SIZE + (3 * U32_SIZE) THEN [status |-> "Panic"]
    ELSE AccountDataHeader(data, calculate_size_from_buffer(data))

\* ------------------------------------------------------------------------
\* Processor (processor.rs)
\* ------------------------------------------------------------------------
\* the id loop of receive_messages: message i (1-based) gets
\* last_message_id + (i - 1) in u32 arithmetic
AssignIds(messages, last_message_id) ==
    [i \in 1..Len(messages) |->
        [messages[i] EXCEPT !.id = wrapping_add(last_message_id, i - 1)]]

\* receive_messages past the is_empty test.  checks: the build traps the
\* u32 overflow of `last_message_id += 1`, which runs once per message.
append_messages(account_data, account_metadata, messages, checks) ==
    IF checks /\ add_overflows(account_metadata.last_message_id, Len(messages))
    THEN [status |-> "Panic", data |-> account_data]
    ELSE
      LET msgs == AssignIds(messages, account_metadata.last_message_id)
          messages_size == SumSizes(msgs, 1)
          start_index == as_usize(account_metadata.next_free_index)
          end_index == usize_add(start_index, messages_size)
      IN  IF past_len(end_index, account_data)
          THEN [status |-> "Panic", data |-> account_data]
          ELSE
            LET r == serialize_messages(
                         msgs, Slice(account_data, index(start_index), index(end_index)))
                d == CopyInto(account_data, index(start_index), r.data)
            IN  IF r.status # "Ok" THEN [status |-> r.status, data |-> d]
                ELSE
                  LET md == [account_metadata EXCEPT
                                !.next_free_index = as_u32(end_index),
                                !.last_message_id = msgs[Len(msgs)].id]
                  IN  IF past_len(MetadataSize(md), d) THEN [status |-> "Panic", data |-> d]
                      ELSE LET w == MetadataSerialize(
                                        md, Slice(d, 0, index(MetadataSize(md))))
                           IN  [status |-> w.status, data |-> CopyInto(d, 0, w.data)]

\* receive_messages with the empty list treated as an error
receive_messages_rejecting_empty(account_data, account_metadata, messages, checks) ==
    IF Len(messages) = 0 THEN [status |-> "Err", data |-> account_data]
    ELSE append_messages(account_data, account_metadata, messages, checks)

\* receive_messages
receive_messages(account_data, account_metadata, messages, checks) ==
    IF Len(messages) = 0 THEN [status |-> "Ok", data |-> account_data]
    ELSE append_messages(account_data, account_metadata, messages, checks)

\* a delete_messages that clears the header's initialized byte
delete_messages_clearing(account_data, id) ==
    IF Len(account_data) = 0 THEN account_data ELSE CopyInto(account_data, 0, << 0 >>)

\* delete_messages has an empty body: the account data is not touched
delete_messages(account_data, id) == account_data

\* open_account
open_account(account_data, account_metadata) ==
    IF past_len(MetadataSize(account_metadata), account_data)
    THEN [status |-> "Panic", data |-> account_data]
    ELSE LET w == MetadataSerialize(
                      account_metadata,
                      Slice(account_data, 0, index(MetadataSize(account_metadata))))
         IN  [status |-> w.status, data |-> CopyInto(account_data, 0, w.data)]

\* the guard with the comparison off by one
AlreadyExists_above_one(acc_metadata) == acc_metadata.initialized > 1

\* the guard of the OpenAccount arm: the account already exists
AlreadyExists(acc_metadata) == acc_metadata.initialized > 0

\* the ProgramResult a codec status becomes in processor::process_instruction
ToProgramResult(status) ==
    CASE status = "Ok" -> "Ok"
      [] status = "Err" -> "InvalidInstructionData"
      [] OTHER -> "Panic"

\* the ProgramResult and the account data a handler leaves
Returned(r) == [result |-> ToProgramResult(r.status), data |-> r.data]

\* the match of processor::process_instruction on the decoded instruction
Dispatch(to_acc_data, acc_metadata, ci, checks) ==
    IF ci.status # "Ok"
    THEN [result |-> ToProgramResult(ci.status), data |-> to_acc_data]
    ELSE CASE ci.value.tag = 0 ->
                Returned(receive_messages(
                             to_acc_data, acc_metadata, ci.value.messages, checks))
           [] ci.value.tag = 1 ->
                [result |-> "Ok", data |-> delete_messages(to_acc_data, ci.value.id)]
           [] ci.value.tag = 2 ->
                IF AlreadyExists(acc_metadata)
                THEN [result |-> "InvalidInstructionData", data |-> to_acc_data]
                ELSE Returned(open_account(to_acc_data, ci.value.account_metadata))

\* processor::process_instruction once the account's header is decoded
WithMetadata(to_acc_data, acc, instruction_data, checks) ==
    IF acc.status # "Ok"
    THEN [result |-> ToProgramResult(acc.status), data |-> to_acc_data]
    ELSE Dispatch(to_acc_data, acc.value, InstructionDeserialize(instruction_data), checks)

\* processor::process_instruction: both accounts are taken from the
\* iterator, then the data of the second one is decoded
processor_process_instruction(accounts, to_acc_data, instruction_data, checks) ==
    IF accounts < 2 THEN [result |-> "NotEnoughAccountKeys", data |-> to_acc_data]
    ELSE WithMetadata(to_acc_data, MetadataDeserialize(to_acc_data), instruction_data, checks)

\* an entrypoint that does not look at is_signer
process_instruction_unsigned_allowed(accounts, signer, to_acc_data, instruction_data, checks) ==
    IF accounts < 1 THEN [result |-> "NotEnoughAccountKeys", data |-> to_acc_data]
    ELSE processor_process_instruction(accounts, to_acc_data, instruction_data, checks)

\* the program entrypoint (lib.rs): accounts is the number of accounts of
\* the call, signer the is_signer flag of the first one
process_instruction(accounts, signer, to_acc_data, instruction_data, checks) ==
    IF accounts < 1 THEN [result |-> "NotEnoughAccountKeys", data |-> to_acc_data]
    ELSE IF ~signer THEN [result |-> "IllegalOwner", data |-> to_acc_data]
    ELSE processor_process_instruction(accounts, to_acc_data, instruction_data, checks)

\* ------------------------------------------------------------------------
\* Bounds and inputs
\* ------------------------------------------------------------------------
\* capacity of the account buffers the ledger hands to the program
Capacity == 160
\* an account too short to hold a metadata header
TinyCapacity == 8
\* successful non-empty SendMessages recorded per behaviour
MaxApplied == 2

Capacities == {TinyCapacity, Capacity}

\* the account data the ledger allocates: capacity zero bytes
Zeroed(capacity) == [i \in 1..capacity |-> 0]

\* the sender identity X
Sender == [i \in 1..PUBKEY_BYTES |-> i]

TextA == << 97 >>
TextB == << 98 >>
TextC == << 99 >>
\* a byte that is not UTF-8
TextBad == << 255 >>

\* create_chat_instruction of the client (chat.rs): a vec of size() zero
\* bytes is serialized into; a failure of serialize is passed on and no
\* instruction is built.  A size past 2^31 is larger than every text of the
\* model, so serialize panics on the length of a text.
create_chat_instruction(ci) ==
    IF InstructionSize(ci).hi >= U16_MODULUS \div 2
    THEN [status |-> "Panic", data |-> << >>]
    ELSE LET r == InstructionSerialize(ci, [i \in 1..index(InstructionSize(ci)) |-> 0])
         IN  IF r.status = "Ok" THEN [status |-> "Ok", data |-> r.data]
             ELSE [status |-> r.status, data |-> << >>]

\* the data of the Instruction the client builds for a ChatInstruction
InstructionData(ci) == create_chat_instruction(ci).data

\* the wire bytes of one message whose text bytes need not be UTF-8
WireMessage(id, from, text) ==
    to_le_bytes(id) \o from \o to_le_bytes(U32Of(Len(text))) \o text

\* message lists a client sends; the submitted ids differ from the ids the
\* processor assigns
Batches ==
    { << >>,
      << NewMessage(U32Of(7), Sender, TextA), NewMessage(U32Of(0), Sender, TextB) >>,
      << NewMessage(U32Of(9), Sender, TextC) >> }

NameAlice == << 97, 108, 105, 99, 101 >>
NameAbc == << 97, 98, 99 >>

\* metadata an OpenAccount payload carries: AccountMetadata::new(name), the
\* struct literal of the test chat_instruction_serializtion_oa (initialized
\* 0, next_free_index 20, last_message_id 3), a literal whose
\* last_message_id is u32::MAX, and a literal whose cursor lies inside the
\* header
OpenInputs ==
    { NewMetadata(NameAlice),
      [initialized |-> 0, next_free_index |-> U32Of(20), last_message_id |-> U32Of(3),
       account_name_len |-> U32Of(3), account_name |-> NameAbc],
      [initialized |-> 1, next_free_index |-> U32Of(ACCOUNT_METADATA_BASE_SIZE),
       last_message_id |-> U32_MAX,
       account_name_len |-> U32Of(0), account_name |-> << >>],
      [initialized |-> 1, next_free_index |-> U32Of(0), last_message_id |-> U32Of(0),
       account_name_len |-> U32Of(0), account_name |-> << >>] }

DeleteIds == {U32Of(0), U32Of(100)}

\* the payloads clients build
SendPayloads == { InstructionData(SendMessagesInstr(b)) : b \in Batches }
DeletePayloads == { InstructionData(DeleteMessagesInstr(id)) : id \in DeleteIds }
OpenPayloads == { InstructionData(OpenAccountInstr(md)) : md \in OpenInputs }

\* payloads of the calls that do not reach the processor
Payloads ==
    { InstructionData(SendMessagesInstr(<< NewMessage(U32Of(9), Sender, TextC) >>)),
      InstructionData(OpenAccountInstr(NewMetadata(NameAlice))) }

\* payloads no ChatInstruction value serializes to: empty, unknown tag,
\* truncated, text that is not UTF-8
RawPayloads ==
    { << >>,
      << 3 >>,
      << 0 >> \o SubSeq(WireMessage(U32Of(0), Sender, TextA), 1, 20),
      << 0 >> \o WireMessage(U32Of(0), Sender, TextA)
              \o WireMessage(U32Of(0), Sender, TextBad),
      << 2, 1 >> \o to_le_bytes(U32Of(14)) \o to_le_bytes(U32Of(0))
                 \o to_le_bytes(U32Of(1)) \o TextBad }

TextHi == << 104, 105 >>

\* the payloads sent to the account of the reference deployment: the empty
\* list, one message "hi" from X, the messages "a" and "b"
ReferenceSendPayloads ==
    { InstructionData(SendMessagesInstr(b)) :
        b \in { << >>,
                << NewMessage(U32Of(0), Sender, TextHi) >>,
                << NewMessage(U32Of(7), Sender, TextA),
                   NewMessage(U32Of(0), Sender, TextB) >> } }

\* ------------------------------------------------------------------------
\* State
\* ------------------------------------------------------------------------
VARIABLES
    account_data,      \* the data of the chat account (to_acc)
    overflow_checks,   \* whether the build traps integer overflow
    before,            \* account_data as it was when the last call began
    instruction_data,  \* the payload of the last call
    accounts,          \* the number of accounts of the last call
    is_signer,         \* is_signer of the first account of the last call
    result,            \* how the last call ended
    applied,           \* the non-empty SendMessages that returned Ok, in order
    opened,            \* the OpenAccount that last returned Ok, if any
    codec              \* the last call of a ChatData method on its own

program_vars == << account_data, overflow_checks, before, instruction_data, accounts,
                   is_signer, result, applied, opened >>

vars == << program_vars, codec >>

\* no ChatData method has been called on its own
CodecIdle ==
    [op |-> "None", kind |-> "None", value |-> << >>, dst |-> << >>,
     status |-> "None", data |-> << >>, decoded |-> [status |-> "None"]]

Init ==
    /\ account_data \in { Zeroed(c) : c \in Capacities }
    /\ overflow_checks \in BOOLEAN
    /\ before = account_data
    /\ instruction_data = << >>
    /\ accounts = 0
    /\ is_signer = FALSE
    /\ result = "None"
    /\ applied = << >>
    /\ opened = << >>
    /\ codec = CodecIdle

\* the state after one invocation: out is what process_instruction returned
\* and left in the buffer, ci the decoded instruction, acc the header the
\* buffer held before the call
Record(n, signer, data, out, ci, acc) ==
    /\ (ci.status = "Ok" /\ ci.value.tag = 0 /\ Len(ci.value.messages) > 0)
          => Len(applied) < MaxApplied
    /\ account_data' = out.data
    /\ before' = account_data
    /\ instruction_data' = data
    /\ accounts' = n
    /\ is_signer' = signer
    /\ result' = out.result
    /\ applied' =
          IF out.result = "Ok" /\ ci.value.tag = 0 /\ Len(ci.value.messages) > 0
          THEN Append(applied,
                      [start |-> index(as_usize(acc.value.next_free_index)),
                       messages |-> AssignIds(ci.value.messages,
                                              acc.value.last_message_id)])
          ELSE applied
    /\ opened' =
          IF out.result = "Ok" /\ ci.value.tag = 2
          THEN << [metadata |-> ci.value.account_metadata, at |-> Len(applied)] >>
          ELSE opened
    /\ UNCHANGED << overflow_checks, codec >>

\* one invocation of the program on the chat account
Call(n, signer, data) ==
    Record(n, signer, data,
           process_instruction(n, signer, account_data, data, overflow_checks),
           InstructionDeserialize(data),
           MetadataDeserialize(account_data))

SendMessages == \E data \in SendPayloads :
    /\ Call(2, TRUE, data)

DeleteMessages == \E data \in DeletePayloads :
    /\ Call(2, TRUE, data)

OpenAccount == \E data \in OpenPayloads :
    /\ Call(2, TRUE, data)

RawInstruction == \E data \in RawPayloads :
    /\ Call(2, TRUE, data)

\* a call whose first account did not sign
Unsigned == \E data \in Payloads :
    /\ Call(2, FALSE, data)

\* a call with fewer than two accounts
MissingAccount == \E n \in {0, 1} :
    /\ Call(n, n = 1, InstructionData(OpenAccountInstr(NewMetadata(NameAlice))))

Next ==
    \/ SendMessages
    \/ DeleteMessages
    \/ OpenAccount
    \/ RawInstruction
    \/ Unsigned
    \/ MissingAccount

Spec == Init /\ [][Next]_vars

\* the account of the reference deployment: ACCOUNT_SIZE zero bytes
InitReference ==
    /\ account_data = Zeroed(ACCOUNT_SIZE)
    /\ overflow_checks \in BOOLEAN
    /\ before = account_data
    /\ instruction_data = << >>
    /\ accounts = 0
    /\ is_signer = FALSE
    /\ result = "None"
    /\ applied = << >>
    /\ opened = << >>
    /\ codec = CodecIdle

ReferenceSend == \E data \in ReferenceSendPayloads :
    /\ Call(2, TRUE, data)

NextReference ==
    \/ ReferenceSend
    \/ DeleteMessages
    \/ OpenAccount

SpecReference == InitReference /\ [][NextReference]_vars

\* ------------------------------------------------------------------------
\* The ChatData methods called on their own
\* ------------------------------------------------------------------------
\* longest message list of the values the codec is called on
MaxBatch == 2

\* texts of one, two and three UTF-8 bytes per character, and the empty text
TextE == << 195, 169 >>
TextEuro == << 226, 130, 172 >>
CodecTexts == { << >>, TextA, TextHi, TextE, TextEuro }

\* messages built by Message::new
CodecMessages ==
    { NewMessage(id, Sender, t) : id \in {U32Of(0), U32_MAX}, t \in CodecTexts }

\* struct literals whose msg_size is not the byte length of msg
SkewedMessages ==
    { [id |-> U32Of(1), from |-> Sender, msg_size |-> U32Of(5), msg |-> TextA],
      [id |-> U32Of(1), from |-> Sender, msg_size |-> U32Of(0), msg |-> TextHi] }

\* metadata built by AccountMetadata::new and by struct literals
CodecMetadata ==
    { NewMetadata(n) : n \in { << >>, NameAlice, TextE } } \cup OpenInputs

\* a struct literal whose account_name_len is not the byte length of the name
SkewedMetadata ==
    { [initialized |-> 1, next_free_index |-> U32Of(15), last_message_id |-> U32Of(0),
       account_name_len |-> U32Of(2), account_name |-> NameAlice] }

\* the messages the lists are made of
ListMessages ==
    { NewMessage(U32Of(0), Sender, << >>),
      NewMessage(U32Of(1), Sender, TextHi),
      NewMessage(U32_MAX, Sender, TextE) }

\* message lists of zero to MaxBatch messages
CodecLists == UNION { [1..n -> ListMessages] : n \in 0..MaxBatch }

CodecInstructions ==
    { SendMessagesInstr(l) : l \in CodecLists }
        \cup { DeleteMessagesInstr(id) : id \in {U32Of(0), U32_MAX} }
        \cup { OpenAccountInstr(md) : md \in CodecMetadata }

\* the types that are serialized and deserialized
Kinds == { "Message", "AccountMetadata", "Messages", "ChatInstruction" }

\* the values of a kind that serialize is called on
CodecValues(kind) ==
    CASE kind = "Message" -> CodecMessages \cup SkewedMessages
      [] kind = "AccountMetadata" -> CodecMetadata \cup SkewedMetadata
      [] kind = "Messages" -> CodecLists
      [] kind = "ChatInstruction" -> CodecInstructions

\* size() of a value; for a message list the sum serialize_messages walks
Size(kind, x) ==
    CASE kind = "Message" -> MessageSize(x)
      [] kind = "AccountMetadata" -> MetadataSize(x)
      [] kind = "Messages" -> SumSizes(x, 1)
      [] kind = "ChatInstruction" -> InstructionSize(x)

\* serialize of a value into the slice dst
Serialize(kind, x, dst) ==
    CASE kind = "Message" -> MessageSerialize(x, dst)
      [] kind = "AccountMetadata" -> MetadataSerialize(x, dst)
      [] kind = "Messages" -> serialize_messages(x, dst)
      [] kind = "ChatInstruction" -> InstructionSerialize(x, dst)

\* deserialize of a value of the kind from data
Deserialize(kind, data) ==
    CASE kind = "Message" -> MessageDeserialize(data)
      [] kind = "AccountMetadata" -> MetadataDeserialize(data)
      [] kind = "Messages" -> deserialize_messages(data)
      [] kind = "ChatInstruction" -> InstructionDeserialize(data)

\* a destination of n bytes, none of them a byte serialize would write here
Filler(n) == [i \in 1..n |-> 170]

\* destination lengths tried for a value of size n: n, one off, and empty
DstLengths(n) == {0, n, n + 1} \cup (IF n > 0 THEN {n - 1} ELSE {})

\* the bytes of x serialized into a destination of exactly size() bytes
Wire(kind, x) == Serialize(kind, x, Filler(index(Size(kind, x))))

\* a value and a destination are chosen; no method has been called yet
CodecInput(kind, x, dst) ==
    [op |-> "None", kind |-> kind, value |-> x, dst |-> dst,
     status |-> "None", data |-> << >>, decoded |-> [status |-> "None"]]

InitCodec ==
    /\ account_data = Zeroed(Capacity)
    /\ overflow_checks = FALSE
    /\ before = account_data
    /\ instruction_data = << >>
    /\ accounts = 0
    /\ is_signer = FALSE
    /\ result = "None"
    /\ applied = << >>
    /\ opened = << >>
    /\ \E kind \in Kinds : \E x \in CodecValues(kind) : \E n \in DstLengths(index(Size(kind, x))) :
          codec = CodecInput(kind, x, Filler(n))

\* the state after value.serialize(dst) returned r
Serialized(r) ==
    /\ codec' = [codec EXCEPT !.op = "Serialize", !.status = r.status, !.data = r.data]
    /\ UNCHANGED program_vars

\* the chosen value is serialized into the chosen destination
CodecSerialize ==
    /\ codec.op = "None"
    /\ Serialized(Serialize(codec.kind, codec.value, codec.dst))

\* the bytes just serialized are decoded
CodecDeserialize ==
    /\ codec.op = "Serialize"
    /\ codec.status = "Ok"
    /\ codec' = [codec EXCEPT !.op = "Deserialize",
                              !.decoded = Deserialize(codec.kind, codec.data)]
    /\ UNCHANGED program_vars

\* the state after data was decoded as a value of the kind
Decoded(kind, data) ==
    /\ codec' = [codec EXCEPT !.op = "DeserializeCut", !.data = data,
                              !.decoded = Deserialize(kind, data)]
    /\ UNCHANGED program_vars

\* a proper prefix of the bytes of the chosen value is decoded
CodecDeserializeCut ==
    /\ codec.op = "None"
    /\ Usize(Len(codec.dst)) = Size(codec.kind, codec.value)
    /\ Wire(codec.kind, codec.value).status = "Ok"
    /\ \E n \in 0..(Len(codec.dst) - 1) :
          Decoded(codec.kind, SubSeq(Wire(codec.kind, codec.value).data, 1, n))

NextCodec ==
    \/ CodecSerialize
    \/ CodecDeserialize
    \/ CodecDeserializeCut

SpecCodec == InitCodec /\ [][NextCodec]_vars

\* ------------------------------------------------------------------------
\* Observations of the last call
\* ------------------------------------------------------------------------
\* the call reached processor::process_instruction (lib.rs:30): there was
\* a first account and it had signed
ProcessorRan == result # "None" /\ accounts >= 1 /\ is_signer

\* the processor got both accounts from the iterator and went on to the
\* data of the second
TookAccounts == ProcessorRan /\ accounts >= 2

\* the metadata stored in the account before and after the last call
MetaBefore == MetadataDeserialize(before)
MetaAfter == MetadataDeserialize(account_data)

\* the instruction the last payload decodes to
Instr == InstructionDeserialize(instruction_data)

\* the processor decoded the stored metadata and an instruction with this
\* tag, and dispatched it
Dispatched(tag) ==
    /\ TookAccounts
    /\ MetaBefore.status = "Ok"
    /\ Instr.status = "Ok"
    /\ Instr.value.tag = tag

\* the last call was a SendMessages of at least one message
SentSome == Dispatched(0) /\ Len(Instr.value.messages) > 0

\* the last call was a SendMessages of at least one message to an account
\* that was Open
SentSomeToOpen == SentSome /\ MetaBefore.value.initialized # 0

\* before the last call the write cursor lay at or past the end of the header
CursorPastHeader ==
    ~usize_lt(as_usize(MetaBefore.value.next_free_index), MetadataSize(MetaBefore.value))

\* the texts of a message list
Texts(messages) == [i \in 1..Len(messages) |-> messages[i].msg]

\* the id stored at buffer offset off
StoredId(off) == from_le_bytes(account_data, off)

\* the bytes serialize_messages produces for a message list
WireMessages(messages) ==
    serialize_messages(messages, [i \in 1..index(SumSizes(messages, 1)) |-> 0]).data

\* offset of message i (0-based) of a batch from the start of the batch
RECURSIVE OffsetIn(_, _)
OffsetIn(messages, i) ==
    IF i = 0 THEN 0 ELSE OffsetIn(messages, i - 1) + index(MessageSize(messages[i]))

\* ------------------------------------------------------------------------
\* Claims
\* ------------------------------------------------------------------------
\* C1: an OpenAccount applied to an account whose stored metadata has
\* initialized != 0 is rejected with InvalidInstructionData and the account
\* data is unchanged, whatever metadata the payload carries and whatever
\* calls came before.
C1_ReopenRejected ==
    (Dispatched(2) /\ MetaBefore.value.initialized # 0)
        => (result = "InvalidInstructionData" /\ account_data = before)

\* a reopen with other metadata than the stored one, after messages were sent
C1_Witness ==
    /\ Dispatched(2)
    /\ MetaBefore.value.initialized # 0
    /\ Instr.value.account_metadata # MetaBefore.value
    /\ Len(applied) > 0
    /\ result = "InvalidInstructionData"

\* C2: after every OpenAccount that returns Ok the stored metadata has
\* initialized != 0.
C2_OpenAccountOpens ==
    (Dispatched(2) /\ result = "Ok")
        => (MetaAfter.status = "Ok" /\ MetaAfter.value.initialized # 0)

\* C3: a non-empty SendMessages applied to an account whose stored
\* initialized is 0 is rejected and writes nothing.
C3_SendNeedsOpen ==
    (SentSome /\ MetaBefore.value.initialized = 0)
        => (result = "InvalidInstructionData" /\ account_data = before)

\* C4: on an account opened with last_message_id = 0 (and the cursor at the
\* end of the header, as AccountMetadata::new sets it), after a SendMessages
\* of the texts a, b and then a SendMessages of the text c, the three stored
\* ids are 0, 1 and 2.
C4_Scenario ==
    /\ Len(opened) = 1
    /\ opened[1].metadata.initialized # 0
    /\ opened[1].metadata.last_message_id = U32Of(0)
    /\ as_usize(opened[1].metadata.next_free_index) = MetadataSize(opened[1].metadata)
    /\ Len(applied) = opened[1].at + 2
    /\ Texts(applied[opened[1].at + 1].messages) = << TextA, TextB >>
    /\ Texts(applied[opened[1].at + 2].messages) = << TextC >>
    /\ SentSome
    /\ result = "Ok"
    /\ Texts(Instr.value.messages) = << TextC >>

C4_Sequencing ==
    C4_Scenario =>
        LET first == applied[opened[1].at + 1]
            second == applied[opened[1].at + 2]
        IN  /\ StoredId(first.start) = U32Of(0)
            /\ StoredId(first.start + OffsetIn(first.messages, 1)) = U32Of(1)
            /\ StoredId(second.start) = U32Of(2)

\* C5: after a SendMessages of n >= 1 messages that returns Ok on an Open
\* account whose last_message_id was L and whose next_free_index was N (at
\* or past the end of the header), message i (0-based) of the batch is
\* stored with id L + i, whatever id it carried.
C5_IdsAssigned ==
    (SentSomeToOpen /\ CursorPastHeader /\ result = "Ok") =>
        LET L == MetaBefore.value.last_message_id
            N == index(as_usize(MetaBefore.value.next_free_index))
            messages == Instr.value.messages
        IN  \A i \in 0..(Len(messages) - 1) :
                /\ ~add_overflows(L, i)
                /\ StoredId(N + OffsetIn(messages, i)) = wrapping_add(L, i)

\* C6: after a SendMessages of n >= 1 messages of total size T that returns
\* Ok on an Open account whose next_free_index was N, bytes [N, N+T) hold
\* the batch's messages one after the other and the header stores
\* next_free_index = N + T and last_message_id = the id of the last message.
C6_AppendLayout ==
    (SentSomeToOpen /\ result = "Ok") =>
        LET N == index(as_usize(MetaBefore.value.next_free_index))
            msgs == AssignIds(Instr.value.messages, MetaBefore.value.last_message_id)
            T == index(SumSizes(msgs, 1))
        IN  /\ N + T <= Len(account_data)
            /\ Slice(account_data, N, N + T) = WireMessages(msgs)
            /\ MetaAfter.status = "Ok"
            /\ MetaAfter.value.next_free_index = U32Of(N + T)
            /\ MetaAfter.value.last_message_id = msgs[Len(msgs)].id

\* C7: a SendMessages with an empty list returns Ok and leaves every byte of
\* the account data unchanged, whether the account is Uninitialized or Open.
C7_EmptySendNoop ==
    (Dispatched(0) /\ Len(Instr.value.messages) = 0)
        => (result = "Ok" /\ account_data = before)

\* an empty send on an Open account that holds messages
C7_Witness ==
    /\ Dispatched(0)
    /\ Len(Instr.value.messages) = 0
    /\ MetaBefore.value.initialized # 0
    /\ Len(applied) > 0
    /\ result = "Ok"

\* C8: a SendMessages to an Open account whose messages would end past the
\* capacity of the account (next_free_index + total size > capacity) is
\* rejected with InvalidInstructionData and the account data is unchanged.
C8_CapacityRejected ==
    (SentSomeToOpen
        /\ past_len(usize_add(as_usize(MetaBefore.value.next_free_index),
                               SumSizes(Instr.value.messages, 1)),
                     before))
        => (result = "InvalidInstructionData" /\ account_data = before)

\* C9: whenever a call does not return Ok the account data is byte for byte
\* what it was when the call began.
C9_FailureIsAtomic ==
    (result # "None" /\ result # "Ok") => account_data = before

\* C10: a DeleteMessages returns Ok and leaves every byte of the account
\* data unchanged, for every id, whether the account is Uninitialized or Open.
C10_DeleteNoop ==
    Dispatched(1) => (result = "Ok" /\ account_data = before)

\* a delete of id 100 on an Open account that holds messages
C10_Witness ==
    /\ Dispatched(1)
    /\ Instr.value.id = U32Of(100)
    /\ MetaBefore.value.initialized # 0
    /\ Len(applied) > 0
    /\ result = "Ok"
    /\ account_data = before

\* ------------------------------------------------------------------------
\* Claims on the reference account and on the codec
\* ------------------------------------------------------------------------
\* what a reader of the account gets from deserialize_account_data
Stored == deserialize_account_data(account_data)

\* the last call was OpenAccount{name = "alice"} on the zeroed reference
\* account and returned Ok
OpenedAlice ==
    /\ Len(account_data) = ACCOUNT_SIZE
    /\ Dispatched(2)
    /\ result = "Ok"
    /\ Instr.value.account_metadata = NewMetadata(NameAlice)
    /\ before = Zeroed(ACCOUNT_SIZE)

\* the last call was SendMessages of the one message {from X, "hi"}, it
\* returned Ok, and the only call that changed the zeroed reference account
\* before it was OpenAccount{name = "alice"}
SentHiToAlice ==
    /\ Len(account_data) = ACCOUNT_SIZE
    /\ SentSome
    /\ result = "Ok"
    /\ Texts(Instr.value.messages) = << TextHi >>
    /\ Instr.value.messages[1].from = Sender
    /\ opened = << [metadata |-> NewMetadata(NameAlice), at |-> 0] >>
    /\ Len(applied) = 1

\* the header OpenAccount{name = "alice"} leaves
AliceHeader(next_free_index) ==
    [initialized |-> 1, next_free_index |-> U32Of(next_free_index),
     last_message_id |-> U32Of(0),
     account_name_len |-> U32Of(5), account_name |-> NameAlice]

\* the end-to-end scenario with the cursor after the send as a parameter
EndToEnd(cursor) ==
    /\ OpenedAlice =>
          (MetaAfter.status = "Ok" /\ MetaAfter.value = AliceHeader(18))
    /\ SentHiToAlice =>
          /\ Stored.status = "Ok"
          /\ Stored.some
          /\ Stored.messages = << NewMessage(U32Of(0), Sender, TextHi) >>
          /\ Stored.metadata = AliceHeader(cursor)

\* C11 as stated: on the zeroed 5120-byte account OpenAccount{alice} leaves
\* initialized 1, next_free_index 18, last_message_id 0, name alice, and a
\* following SendMessages of one message {from X, "hi"} leaves a log of
\* that one message with id 0 and a header with next_free_index 62 and
\* last_message_id 0.
C11_EndToEnd62 == EndToEnd(62)

\* C11 amended: the same scenario, the cursor after the send being
\* 18 + 42 = 60 (the message "hi" takes 4 + 32 + 4 + 2 bytes).
C11_EndToEnd60 == EndToEnd(60)

\* the send of "hi" has been applied to the account opened as alice
C11_Witness == SentHiToAlice /\ MetaBefore.value = AliceHeader(18)

\* the length field of every text of x is the byte length of the text
Valid(kind, x) ==
    CASE kind = "Message" -> Usize(Len(x.msg)) = as_usize(x.msg_size)
      [] kind = "AccountMetadata" ->
            Usize(Len(x.account_name)) = as_usize(x.account_name_len)
      [] kind = "Messages" ->
            \A i \in 1..Len(x) : Usize(Len(x[i].msg)) = as_usize(x[i].msg_size)
      [] kind = "ChatInstruction" ->
            CASE x.tag = 0 ->
                    \A i \in 1..Len(x.messages) :
                        Usize(Len(x.messages[i].msg)) = as_usize(x.messages[i].msg_size)
              [] x.tag = 1 -> TRUE
              [] x.tag = 2 ->
                    Usize(Len(x.account_metadata.account_name))
                        = as_usize(x.account_metadata.account_name_len)

\* the destination chosen for the value has exactly size() bytes
ExactDst == Usize(Len(codec.dst)) = Size(codec.kind, codec.value)

\* C12: for every valid Message, AccountMetadata and ChatInstruction x (all
\* three variants, SendMessages with zero and with several messages),
\* serializing x into a buffer of exactly size(x) bytes succeeds and
\* decoding that buffer yields a value equal to x.
C12_RoundTrip ==
    (codec.kind \in {"Message", "AccountMetadata", "ChatInstruction"}
        /\ Valid(codec.kind, codec.value) /\ ExactDst)
        => /\ codec.op = "Serialize" => codec.status = "Ok"
           /\ codec.op = "Deserialize" =>
                (codec.decoded.status = "Ok" /\ codec.decoded.value = codec.value)

\* a SendMessages of several messages, one of them with a text of two-byte
\* characters, has been serialized and decoded
C12_Witness ==
    /\ codec.op = "Deserialize"
    /\ codec.kind = "ChatInstruction"
    /\ codec.value.tag = 0
    /\ Len(codec.value.messages) > 1
    /\ codec.value.messages[2].msg = TextE
    /\ codec.decoded.value = codec.value

\* the serializations of the messages one after the other
RECURSIVE ConcatWire(_, _)
ConcatWire(messages, k) ==
    IF k > Len(messages) THEN << >>
    ELSE Wire("Message", messages[k]).data \o ConcatWire(messages, k + 1)

\* C13: deserialize_messages applied to the concatenation of the
\* serializations of k >= 0 valid messages returns exactly those k messages
\* in order and its cursor ends at the end of the slice; for k = 0 (an empty
\* slice) it returns the empty list.
C13_DecodeMessages ==
    (codec.op = "Deserialize" /\ codec.kind = "Messages"
        /\ Valid(codec.kind, codec.value) /\ ExactDst)
        => /\ codec.data = ConcatWire(codec.value, 1)
           /\ codec.decoded.status = "Ok"
           /\ codec.decoded.value = codec.value
           /\ codec.decoded.consumed = Len(codec.data)

\* the concatenation of two messages, the first with an empty text, has
\* been decoded
C13_Witness ==
    /\ codec.op = "Deserialize"
    /\ codec.kind = "Messages"
    /\ ExactDst
    /\ Len(codec.value) = 2
    /\ codec.value[1].msg = << >>
    /\ codec.value[2].msg = TextHi
    /\ codec.decoded.value = codec.value

\* C15: serialize of a Message, an AccountMetadata or a ChatInstruction
\* returns the error and writes no byte of the destination whenever the
\* length of the destination differs from size() of the value.
C15_SizeMismatch ==
    (codec.op = "Serialize"
        /\ codec.kind \in {"Message", "AccountMetadata", "ChatInstruction"}
        /\ ~ExactDst)
        => (codec.status = "Err" /\ codec.data = codec.dst)

\* a message has been serialized into a destination one byte too long
C15_Witness ==
    /\ codec.op = "Serialize"
    /\ codec.kind = "Message"
    /\ Len(codec.dst) = index(MessageSize(codec.value)) + 1
    /\ codec.status = "Err"
    /\ codec.data = codec.dst

\* the end of the message that starts at offset start of data, for
\* start + 40 <= data.len()
MessageEnd(data, start) ==
    usize_add(Usize(start + (U32_SIZE * 2) + PUBKEY_BYTES),
              as_usize(from_le_bytes(data, start + U32_SIZE + PUBKEY_BYTES)))

\* the fixed fields or the text of the message at the start of data reach
\* past the end of data; bytes after the message are not read
MessageReadsPast(data) ==
    \/ Len(data) < (U32_SIZE * 2) + PUBKEY_BYTES
    \/ past_len(MessageEnd(data, 0), data)

\* decoding the message list data[start..] reaches past the end of data;
\* the empty slice is not read at all
RECURSIVE ListReadsPast(_, _)
ListReadsPast(data, start) ==
    IF start >= Len(data) THEN FALSE
    ELSE IF MessageReadsPast(Slice(data, start, Len(data))) THEN TRUE
    ELSE ListReadsPast(data, index(MessageEnd(data, start)))

\* the fixed fields or the name of the metadata reach past the end of data
MetadataReadsPast(data) ==
    \/ Len(data) < ACCOUNT_METADATA_BASE_SIZE
    \/ past_len(calculate_size_from_buffer(data), data)

\* decoding data as a value of the kind would read past the end of data
ReadsPastEnd(kind, data) ==
    CASE kind = "Message" -> MessageReadsPast(data)
      [] kind = "AccountMetadata" -> MetadataReadsPast(data)
      [] kind = "Messages" -> ListReadsPast(data, 0)
      [] kind = "ChatInstruction" ->
            /\ Len(data) > 0
            /\ CASE data[1] = 0 -> ListReadsPast(data, 1)
                 [] data[1] = 1 -> Len(data) - 1 < U32_SIZE
                 [] data[1] = 2 -> MetadataReadsPast(Slice(data, 1, Len(data)))
                 [] OTHER -> FALSE

\* C16: decoding a Message, an AccountMetadata, a message list or a
\* ChatInstruction from input in which the fixed fields or a text
\* (msg_size, account_name_len) would reach past the end of the input
\* returns the error value; it never aborts.
C16_ShortInputIsError ==
    (codec.op = "DeserializeCut" /\ ReadsPastEnd(codec.kind, codec.data))
        => codec.decoded.status = "Err"

\* ------------------------------------------------------------------------
\* Claims on the processor's failures and on the log
\* ------------------------------------------------------------------------
\* the last payload is empty or its first byte is no ChatCommand
UnknownInstruction ==
    Len(instruction_data) = 0 \/ instruction_data[1] \notin {0, 1, 2}

\* C14: a payload that is empty or whose first byte is not 0, 1 or 2 fails
\* to decode, and the processor, having decoded the stored metadata, rejects
\* the call with InvalidInstructionData and leaves the account data
\* unchanged.
C14_UnknownInstructionRejected ==
    (TookAccounts /\ MetaBefore.status = "Ok" /\ UnknownInstruction)
        => /\ Instr.status = "Err"
           /\ result = "InvalidInstructionData"
           /\ account_data = before

\* a payload with tag 3 was rejected on an Open account that holds messages
C14_Witness ==
    /\ TookAccounts
    /\ MetaBefore.status = "Ok"
    /\ MetaBefore.value.initialized # 0
    /\ instruction_data = << 3 >>
    /\ Len(applied) > 0
    /\ result = "InvalidInstructionData"

\* C17: right after every OpenAccount that returns Ok the stored
\* next_free_index equals the size of the stored metadata, 13 + the length
\* of the name.
C17_FreshCursorAtHeaderEnd ==
    (Dispatched(2) /\ result = "Ok")
        => /\ MetaAfter.status = "Ok"
           /\ as_usize(MetaAfter.value.next_free_index) = MetadataSize(MetaAfter.value)

\* C18: every call of the processor that does not return Ok (stored
\* metadata or instruction that cannot be decoded, reopen of an initialized
\* account, failed message or header write) ends with
\* InvalidInstructionData.
C18_SingleRejection ==
    (ProcessorRan /\ result # "Ok") => result = "InvalidInstructionData"

\* the bytes [start, start + size) that the batch applied[k] was written to
BatchBytes(data, k) ==
    Slice(data, applied[k].start,
          applied[k].start + index(SumSizes(applied[k].messages, 1)))

\* the last call is the SendMessages that wrote the batch applied[k]
WroteBatch(k) == SentSome /\ result = "Ok" /\ k = Len(applied)

\* C19: the bytes a successful SendMessages wrote its messages to are not
\* changed by any later call, whatever the instruction and its result.
C19_AppendOnly ==
    \A k \in 1..Len(applied) :
        ~WroteBatch(k) => BatchBytes(account_data, k) = BatchBytes(before, k)

\* the messages of all successful SendMessages, in the order applied
RECURSIVE AppliedMessages(_)
AppliedMessages(k) ==
    IF k > Len(applied) THEN << >>
    ELSE applied[k].messages \o AppliedMessages(k + 1)

\* C20: after any sequence of calls on an account that was zeroed,
\* deserialize_account_data (header at offset 0, messages in the bytes from
\* the header's size to next_free_index) yields exactly the messages of
\* all successful SendMessages, in the order applied, each with the id
\* assigned to it, its sender and its text.
C20_LogRefinement ==
    Len(account_data) >= ACCOUNT_METADATA_BASE_SIZE
        => (Stored.status = "Ok" /\ Stored.messages = AppliedMessages(1))

\* ------------------------------------------------------------------------
\* Claims on the header over sequences of calls
\* ------------------------------------------------------------------------
\* the fields of the header in data that OpenAccount alone may set
HeaderIdentity(data) ==
    LET md == MetadataDeserialize(data)
    IN  IF md.status = "Ok"
        THEN [decodes |-> TRUE, initialized |-> md.value.initialized,
              account_name_len |-> md.value.account_name_len,
              account_name |-> md.value.account_name]
        ELSE [decodes |-> FALSE, initialized |-> 0,
              account_name_len |-> U32Of(0), account_name |-> << >>]

\* C21: once an OpenAccount has returned Ok, no later call changes the
\* stored initialized, account_name_len and account_name: they keep the
\* values that OpenAccount wrote.
C21_HeaderIdentityKept ==
    [][Len(opened) = 1 => HeaderIdentity(account_data') = HeaderIdentity(account_data)]_vars

\* the stored write cursor before and after the last call
CursorBefore == as_usize(MetaBefore.value.next_free_index)
CursorAfter == as_usize(MetaAfter.value.next_free_index)

\* C22: the stored next_free_index never decreases from the state before a
\* call to the state after it, and it is strictly larger after every
\* non-empty SendMessages that returns Ok.
C22_CursorMonotone ==
    (result # "None" /\ MetaBefore.status = "Ok")
        => /\ MetaAfter.status = "Ok"
           /\ ~usize_lt(CursorAfter, CursorBefore)
           /\ (SentSome /\ result = "Ok") => usize_lt(CursorBefore, CursorAfter)

\* C23: in every state of an Open account the cursor lies after the header
\* and inside the account: size() <= next_free_index <= capacity.
C23_CursorInArena ==
    (MetaAfter.status = "Ok" /\ MetaAfter.value.initialized # 0)
        => /\ ~usize_lt(CursorAfter, MetadataSize(MetaAfter.value))
           /\ ~past_len(CursorAfter, account_data)

\* C24: in every state of an account that was zeroed, every byte at an
\* offset from the stored next_free_index up to the capacity is zero.
C24_TrailingZero ==
    MetaAfter.status = "Ok"
        => \A i \in 1..Len(account_data) :
               ~usize_lt(Usize(i - 1), CursorAfter) => account_data[i] = 0

\* C27: a call on an account whose stored initialized is not 0 leaves the
\* stored initialized not 0, whatever the instruction and its result.
C27_OpenAbsorbing ==
    (result # "None" /\ MetaBefore.status = "Ok" /\ MetaBefore.value.initialized # 0)
        => (MetaAfter.status = "Ok" /\ MetaAfter.value.initialized # 0)

\* a < b for u32 values
U32Less(a, b) == a.hi < b.hi \/ (a.hi = b.hi /\ a.lo < b.lo)

\* C28: the ids of the messages stored in the log of an account are
\* strictly increasing in log order, so no two stored messages carry the
\* same id.
C28_IdsDistinct ==
    (Stored.status = "Ok" /\ MetaAfter.value.initialized # 0)
        => \A i \in 1..(Len(Stored.messages) - 1) :
               U32Less(Stored.messages[i].id, Stored.messages[i + 1].id)

\* ------------------------------------------------------------------------
\* Claims on the entrypoint and on submitters
\* ------------------------------------------------------------------------
\* the last call had a first account and that account had not signed
CalledUnsigned == result # "None" /\ accounts >= 1 /\ ~is_signer

\* C26: a call whose first account is not a signer fails with IllegalOwner
\* and leaves the storage buffer as it was, whatever the instruction and
\* whatever the account holds.
C26_UnsignedRefused ==
    CalledUnsigned => (result = "IllegalOwner" /\ account_data = before)

\* an unsigned SendMessages that the processor would have accepted: the
\* account is Open, already holds a batch and has room for the message
C26_Witness ==
    /\ CalledUnsigned
    /\ Instr.status = "Ok"
    /\ Instr.value.tag = 0
    /\ Len(Instr.value.messages) > 0
    /\ MetaBefore.status = "Ok"
    /\ MetaBefore.value.initialized # 0
    /\ Len(applied) > 0
    /\ processor_process_instruction(
           accounts, before, instruction_data, overflow_checks).result = "Ok"
    /\ result = "IllegalOwner"

\* the identity of a second sender, Y
SenderY == [i \in 1..PUBKEY_BYTES |-> 100 + i]

Submitters == {Sender, SenderY}

\* the batches a submitter sends: one message, as send_message of the
\* client builds it (id 0), or two messages
SubmitterBatches(from) ==
    { << NewMessage(U32Of(0), from, TextA) >>,
      << NewMessage(U32Of(0), from, TextB), NewMessage(U32Of(0), from, TextC) >> }

\* the submitter has a batch in the log of applied sends
HasSubmitted(from) ==
    \E i \in 1..Len(applied) : applied[i].messages[1].from = from

\* one zeroed account that clients open and two submitters send to
InitSubmitters ==
    /\ account_data = Zeroed(Capacity)
    /\ overflow_checks \in BOOLEAN
    /\ before = account_data
    /\ instruction_data = << >>
    /\ accounts = 0
    /\ is_signer = FALSE
    /\ result = "None"
    /\ applied = << >>
    /\ opened = << >>
    /\ codec = CodecIdle

\* a submitter whose batch is not yet in the log sends one; the ledger
\* applies the instructions of the submitters one at a time, in any order
SubmitterSends == \E from \in Submitters : \E b \in SubmitterBatches(from) :
    /\ ~HasSubmitted(from)
    /\ Call(2, TRUE, InstructionData(SendMessagesInstr(b)))

NextSubmitters ==
    \/ OpenAccount
    \/ SubmitterSends

SpecSubmitters == InitSubmitters /\ [][NextSubmitters]_vars

\* both submitters have had a batch applied
BothSubmitted ==
    /\ Len(applied) = 2
    /\ applied[1].messages[1].from # applied[2].messages[1].from

\* the account was opened with initialized != 0 before the first batch
OpenWhenSent ==
    /\ Len(opened) = 1
    /\ opened[1].at = 0
    /\ opened[1].metadata.initialized # 0

\* C25: when two submitters have each had a batch applied to the same Open
\* account, in either order, the log of the account holds the messages of
\* the first applied batch followed by the messages of the second, each
\* batch whole, with nothing lost or overwritten.
C25_BatchesUnmixed ==
    (BothSubmitted /\ OpenWhenSent)
        => /\ Stored.status = "Ok"
           /\ Stored.messages = applied[1].messages \o applied[2].messages

====
